---- MODULE Spec2Model ----
(***************************************************************************)
(* The session core of src/App.tsx: handleStartSession, handleStopSession, *)
(* handleSendText, the four transport callbacks (onopen, onmessage,        *)
(* onerror, onclose), the capture callback (onaudioprocess), the           *)
(* completion callback of a playback source (onended) and stopAllAudio,    *)
(* over the component's state and refs; and the conversions of a captured  *)
(* frame (the 16-bit store, encode, decode, decodeAudioData).              *)
(*                                                                         *)
(* Handlers run to completion (one JavaScript task each).  The suspension  *)
(* points of handleStartSession are its awaits on external promises: the   *)
(* two resume() calls and getUserMedia (lines 120-123: nothing is read or  *)
(* written between them and a rejection of any takes the same catch, so    *)
(* they are one suspension) and the session promise (line 207).  Any other *)
(* handler may run while an attempt is suspended.  The                     *)
(* await of onmessage (line 165) is on the promise of the local            *)
(* decodeAudioData, which holds no await of its own: it is settled when it *)
(* is returned and the handler resumes in the same task, so onmessage is   *)
(* one step.                                                               *)
(*                                                                         *)
(* The handlers are callable in every state (the buttons that call them    *)
(* are outside of what is modelled).  Attempt number a of                  *)
(* handleStartSession owns transport a (the object ai.live.connect makes)  *)
(* and script processor a.                                                 *)
(***************************************************************************)
EXTENDS Integers, Sequences, FiniteSets, TLC

(* ------------------------------ bounds -------------------------------- *)
MaxAttempts == 2
MaxSessions == 1
MaxMsgs == 2
MaxClock == 1
MaxFrames == 1
MaxTexts == 1
MaxSamples == 2

(* The calls of handleStartSession: up to MaxAttempts where the claims are *)
(* about overlapping attempts, up to MaxSessions where they are about the  *)
(* traffic of a session.                                                   *)
Attempts == 1..MaxAttempts
Sessions == 1..MaxSessions
Durations == {1, 2}
OutFrags == {"Hel", "lo"}
InFrags == {"hi"}
(* What the input field may hold at a call of handleSendText, character by *)
(* character: nothing, a blank, a word, a word with a blank before it.     *)
Texts == {<<>>, <<" ">>, <<"h", "i">>, <<" ", "h", "i">>}

(* --------------------------- types.ts --------------------------------- *)
DISCONNECTED == "DISCONNECTED"
CONNECTING == "CONNECTING"
CONNECTED == "CONNECTED"
ERROR == "ERROR"
ConnectionStatus == {DISCONNECTED, CONNECTING, CONNECTED, ERROR}

(* A field the inbound message does not carry. *)
Absent == "ABSENT"
NoAudio == 0
BadAudio == -1
BadStart == -2

(* LiveServerMessage, by the fields onmessage reads: outputTranscription   *)
(* text, inputTranscription text, turnComplete, the inline audio (absent,  *)
(* undecodable, decodable into a source whose start() throws, or playable *)
(* with a duration), interrupted.                                          *)
ServerMessages ==
    [ot : {Absent} \cup OutFrags, it : {Absent} \cup InFrags, tc : BOOLEAN,
     audio : {NoAudio, BadAudio, BadStart} \cup Durations, intr : BOOLEAN]

(* The messages that carry audio or an interruption and no transcript, and *)
(* those that carry transcript fields and no audio: onmessage handles the  *)
(* two groups of fields one after the other, over disjoint state.          *)
AudioMessages ==
    {m \in ServerMessages :
        /\ m.ot = Absent /\ m.it = Absent /\ ~m.tc
        /\ (m.audio # NoAudio \/ m.intr)}
TextMessages ==
    {m \in ServerMessages :
        /\ m.audio = NoAudio /\ ~m.intr
        /\ (m.ot # Absent \/ m.it # Absent \/ m.tc)}

VARIABLES
    messages,          \* useState messages: the conversation log
    status,            \* useState status
    isSpeaking,        \* useState isSpeaking
    isListening,       \* useState isListening
    nextStartTime,     \* nextStartTimeRef.current: the watermark
    activeSources,     \* activeSourcesRef.current: units [start, dur]
    sessionRef,        \* sessionRef.current: 0 is null, else a transport
    scriptProcessorRef,\* scriptProcessorRef.current: 0 is null
    currentInput,      \* currentInputTranscriptionRef.current
    currentOutput,     \* currentOutputTranscriptionRef.current
    pc,                \* where each attempt of handleStartSession stands
    tstate,            \* each transport: none, connecting, open, aborting, closing, closed
    attached,          \* script processors connected to the destination
    clock,             \* outputAudioContextRef.current.currentTime
    sent,              \* per transport, what was handed to sendRealtimeInput
    nMsgs,             \* inbound messages delivered so far (bounded)
    streams,           \* the microphone streams of getUserMedia still live
    texts,             \* history: the calls of handleSendText, with the status at the call
    cancelled,         \* history: suspended attempts that stop() or a newer start() overtook
    priorLive,         \* history: per attempt, the transports live when it started Connected
    sched,             \* history: units scheduled since the last stopAllAudio
    flushed,           \* history: the last stopAllAudio was an interruption
    frags,             \* history: outbound fragments since the last flush
    inputData,         \* onaudioprocess: the samples of the input buffer
    int16,             \* onaudioprocess: the Int16Array after the loop
    pcmBlob,           \* onaudioprocess: pcmBlob.data, the base64 text
    audioBuffer,       \* decodeAudioData: the samples of the decoded buffer
    codecPc,           \* the frame under conversion: idle, captured, encoded, decoded
    stopped            \* history: handleStopSession ran and handleStartSession has not since

vars == <<messages, status, isSpeaking, isListening, nextStartTime,
          activeSources, sessionRef, scriptProcessorRef, currentInput,
          currentOutput, pc, tstate, attached, clock, sent, nMsgs, streams,
          texts, cancelled, priorLive, sched, flushed, frags, inputData,
          int16, pcmBlob, audioBuffer, codecPc, stopped>>

uiVars == <<messages, status, isSpeaking, isListening>>
audioVars == <<nextStartTime, activeSources, sched, flushed>>
textVars == <<currentInput, currentOutput, frags, messages>>
codecVars == <<inputData, int16, pcmBlob, audioBuffer, codecPc>>
appVars == <<messages, status, isSpeaking, isListening, nextStartTime,
             activeSources, sessionRef, scriptProcessorRef, currentInput,
             currentOutput, pc, tstate, attached, clock, sent, nMsgs, streams,
             texts, cancelled, priorLive, sched, flushed, frags, stopped>>

(* ------------------------------ helpers ------------------------------- *)
Suspended == {"mic", "connect", "resolved"}
Live(t) == tstate[t] \in {"connecting", "open"}

(* What sendRealtimeInput is handed: the greeting text, a captured frame. *)
Greeting == "greet"
Frame == "frame"

(* A live transport on its way to closed: one that was open is closing    *)
(* (messages in flight are still delivered), one that never opened is     *)
(* aborting.  The close event follows.                                    *)
Closing(st) == IF st = "connecting" THEN "aborting" ELSE "closing"

(* session.close(). *)
CloseTransport(ts, s) ==
    IF s # 0 /\ ts[s] \in {"connecting", "open"}
    THEN [ts EXCEPT ![s] = Closing(@)] ELSE ts

(* scriptProcessor.disconnect(): the capture pipeline is detached. *)
Disconnect(at, p) == at \ {p}

(* The string made of the pieces of fs, in order. *)
RECURSIVE Concat(_)
Concat(fs) == IF fs = <<>> THEN "" ELSE Head(fs) \o Concat(Tail(fs))

FrameCount ==
    Cardinality({<<t, i>> \in Attempts \X (1..(MaxFrames + 1)) :
                    i <= Len(sent[t]) /\ sent[t][i] = Frame})

InitApp ==
    /\ messages = <<>>
    /\ status = DISCONNECTED
    /\ isSpeaking = FALSE
    /\ isListening = FALSE
    /\ nextStartTime = 0
    /\ activeSources = {}
    /\ sessionRef = 0
    /\ scriptProcessorRef = 0
    /\ currentInput = ""
    /\ currentOutput = ""
    /\ pc = [a \in Attempts |-> "idle"]
    /\ tstate = [a \in Attempts |-> "none"]
    /\ attached = {}
    /\ clock = 0
    /\ sent = [a \in Attempts |-> <<>>]
    /\ nMsgs = 0
    /\ texts = <<>>
    /\ streams = {}
    /\ cancelled = {}
    /\ priorLive = [a \in Attempts |-> {}]
    /\ sched = <<>>
    /\ flushed = FALSE
    /\ frags = <<>>
    /\ stopped = FALSE

(* No frame is under conversion. *)
Init ==
    /\ InitApp
    /\ inputData = <<>>
    /\ int16 = <<>>
    /\ pcmBlob = <<>>
    /\ audioBuffer = <<>>
    /\ codecPc = "idle"

(* ---------------------------- stopAllAudio ---------------------------- *)
(* Lines 72-79: stop every source of the set, clear it, watermark to 0,    *)
(* isSpeaking false.  w is the watermark at the call, intr whether the     *)
(* caller is the interruption of line 181.                                 *)
stopAllAudio_KeepsWatermark(w, intr) ==
    /\ activeSources' = {}
    /\ nextStartTime' = w
    /\ isSpeaking' = FALSE
    /\ sched' = <<>>
    /\ flushed' = intr

stopAllAudio_ToClock(w, intr) ==
    /\ activeSources' = {}
    /\ nextStartTime' = clock
    /\ isSpeaking' = FALSE
    /\ sched' = <<>>
    /\ flushed' = intr

stopAllAudio(w, intr) ==
    /\ activeSources' = {}
    /\ nextStartTime' = 0
    /\ isSpeaking' = FALSE
    /\ sched' = <<>>
    /\ flushed' = intr

(* --------------------------- handleSendText --------------------------- *)
(* String.prototype.trim: the blanks at both ends are dropped. *)
RECURSIVE TrimStart(_)
TrimStart(x) ==
    IF x # <<>> /\ Head(x) = " " THEN TrimStart(Tail(x)) ELSE x

RECURSIVE TrimEnd(_)
TrimEnd(x) ==
    IF x # <<>> /\ x[Len(x)] = " "
    THEN TrimEnd(SubSeq(x, 1, Len(x) - 1)) ELSE x

Trim(x) == TrimEnd(TrimStart(x))

UserMessage(text) == [role |-> "user", text |-> text]

(* Line 82: the early return, negated. *)
CanSend_AnyStatus(x) == Trim(x) # <<>> /\ sessionRef # 0

CanSend(x) == Trim(x) # <<>> /\ sessionRef # 0 /\ status = CONNECTED

(* Lines 81-98 with x in the input field.  sendRealtimeInput on a          *)
(* transport that is open returns; on one that is not it returns or throws,*)
(* and the catch of line 95 then leaves the log alone.                     *)
SendText(x) ==
    /\ Len(texts) < MaxTexts
    /\ texts' = Append(texts, [text |-> x, status |-> status])
    /\ IF CanSend(x)
       THEN \E throws \in IF tstate[sessionRef] = "open"
                          THEN {FALSE} ELSE BOOLEAN :
               IF throws
               THEN UNCHANGED <<messages, sent>>
               ELSE /\ sent' = [sent EXCEPT ![sessionRef] =
                                   Append(@, Concat(Trim(x)))]
                    /\ messages' =
                           Append(messages, UserMessage(Concat(Trim(x))))
       ELSE UNCHANGED <<messages, sent>>
    /\ UNCHANGED <<status, isSpeaking, isListening, audioVars, sessionRef,
                   scriptProcessorRef, currentInput, currentOutput, pc, tstate,
                   attached, clock, nMsgs, streams, cancelled, priorLive,
                   frags, codecVars, stopped>>

(* ------------------------- handleStartSession ------------------------- *)
(* Lines 103-109: the teardown at the head of handleStartSession. *)
StartTeardown ==
    /\ tstate' = CloseTransport(tstate, sessionRef)
    /\ attached' = Disconnect(attached, scriptProcessorRef)
    /\ stopAllAudio(nextStartTime, FALSE)

(* Lines 101-120: the synchronous head, up to the first await. *)
Start(a) ==
    /\ pc[a] = "idle"
    /\ \A b \in Attempts : b < a => pc[b] # "idle"
    /\ StartTeardown
    /\ status' = CONNECTING
    /\ pc' = [pc EXCEPT ![a] = "mic"]
    /\ cancelled' = cancelled \cup {b \in Attempts : pc[b] \in Suspended}
    /\ priorLive' = [priorLive EXCEPT ![a] =
                        IF status = CONNECTED
                        THEN {t \in Attempts : Live(t)} ELSE {}]
    /\ UNCHANGED <<messages, isListening, sessionRef, scriptProcessorRef,
                   currentInput, currentOutput, clock, sent, nMsgs, texts, streams, frags, codecVars>>
    /\ stopped' = FALSE

(* The catch of lines 241-244. *)
StartFailed(a) ==
    /\ status' = ERROR
    /\ pc' = [pc EXCEPT ![a] = "failed"]
    /\ cancelled' = cancelled \ {a}

(* Lines 120-123 resolved, lines 126-207: the microphone stream is held,   *)
(* the transport is created, connecting.                                   *)
MicGranted(a) ==
    /\ pc[a] = "mic"
    /\ pc' = [pc EXCEPT ![a] = "connect"]
    /\ tstate' = [tstate EXCEPT ![a] = "connecting"]
    /\ streams' = streams \cup {a}
    /\ UNCHANGED <<uiVars, audioVars, sessionRef, scriptProcessorRef,
                   currentInput, currentOutput, attached, clock, sent, nMsgs,
                   texts, cancelled, priorLive, frags, codecVars, stopped>>

MicDenied_AfterConnect(a) ==
    /\ pc[a] = "mic"
    /\ StartFailed(a)
    /\ tstate' = [tstate EXCEPT ![a] = "connecting"]
    /\ UNCHANGED <<messages, isSpeaking, isListening, audioVars, sessionRef,
                   scriptProcessorRef, currentInput, currentOutput,
                   attached, clock, sent, nMsgs, texts, streams, priorLive,
                   frags, codecVars, stopped>>

(* Lines 120-123 rejected: no microphone (or no audio context). *)
MicDenied(a) ==
    /\ pc[a] = "mic"
    /\ StartFailed(a)
    /\ UNCHANGED <<messages, isSpeaking, isListening, audioVars, sessionRef,
                   scriptProcessorRef, currentInput, currentOutput, tstate,
                   attached, clock, sent, nMsgs, texts, streams, priorLive, frags, codecVars, stopped>>

(* Line 207 rejected: the connection was not established. *)
ConnectReject(a) ==
    /\ pc[a] = "connect"
    /\ StartFailed(a)
    /\ tstate' = [tstate EXCEPT ![a] =
                     IF @ = "connecting" THEN Closing(@) ELSE @]
    /\ UNCHANGED <<messages, isSpeaking, isListening, audioVars, sessionRef,
                   scriptProcessorRef, currentInput, currentOutput, attached,
                   clock, sent, nMsgs, texts, streams, priorLive, frags, codecVars, stopped>>

(* Lines 208-239, after the session promise resolved.  With fail, lines   *)
(* 211-212 throw (createMediaStreamSource refuses the stream) and the      *)
(* catch runs with the session stored and no processor.                    *)
Continue(a, fail) ==
    /\ pc[a] = "resolved"
    /\ sessionRef' = a
    /\ IF fail
       THEN /\ StartFailed(a)
            /\ UNCHANGED <<scriptProcessorRef, attached, sent>>
       ELSE /\ scriptProcessorRef' = a
            /\ attached' = attached \cup {a}
            /\ sent' = [sent EXCEPT ![a] = Append(@, Greeting)]
            /\ pc' = [pc EXCEPT ![a] = "done"]
            /\ cancelled' = cancelled \ {a}
            /\ status' = status
    /\ UNCHANGED <<messages, isSpeaking, isListening, audioVars, currentInput,
                   currentOutput, tstate, clock, nMsgs, texts, streams, priorLive, frags, codecVars, stopped>>

(* -------------------------- handleStopSession ------------------------- *)
(* Lines 247-259. *)
Stop ==
    /\ tstate' = CloseTransport(tstate, sessionRef)
    /\ sessionRef' = 0
    /\ attached' = Disconnect(attached, scriptProcessorRef)
    /\ scriptProcessorRef' = 0
    /\ stopAllAudio(nextStartTime, FALSE)
    /\ isListening' = FALSE
    /\ status' = DISCONNECTED
    /\ cancelled' = cancelled \cup {b \in Attempts : pc[b] \in Suspended}
    /\ UNCHANGED <<messages, currentInput, currentOutput, pc, clock, sent,
                   nMsgs, texts, streams, priorLive, frags, codecVars>>
    /\ stopped' = TRUE

(* ------------------------- transport callbacks ------------------------ *)
(* Lines 132-136.  The session promise resolves with the open transport. *)
OnOpen(t) ==
    /\ tstate[t] = "connecting"
    /\ tstate' = [tstate EXCEPT ![t] = "open"]
    /\ pc' = [pc EXCEPT ![t] = IF @ = "connect" THEN "resolved" ELSE @]
    /\ status' = CONNECTED
    /\ isListening' = TRUE
    /\ UNCHANGED <<messages, isSpeaking, audioVars, sessionRef,
                   scriptProcessorRef, currentInput, currentOutput, attached,
                   clock, sent, nMsgs, texts, streams, cancelled, priorLive, frags, codecVars, stopped>>

(* Lines 183-187.  The transport is lost; its close event is still due. *)
OnError(t) ==
    /\ Live(t)
    /\ tstate' = [tstate EXCEPT ![t] = Closing(@)]
    /\ status' = ERROR
    /\ isListening' = FALSE
    /\ UNCHANGED <<messages, isSpeaking, audioVars, sessionRef,
                   scriptProcessorRef, currentInput, currentOutput, pc,
                   attached, clock, sent, nMsgs, texts, streams, cancelled, priorLive, frags, codecVars, stopped>>

(* Lines 188-193.  The close event: after close(), after an error, or from *)
(* the remote side.                                                        *)
OnClose(t) ==
    /\ tstate[t] \in {"connecting", "open", "aborting", "closing"}
    /\ tstate' = [tstate EXCEPT ![t] = "closed"]
    /\ status' = DISCONNECTED
    /\ isListening' = FALSE
    /\ stopAllAudio(nextStartTime, FALSE)
    /\ UNCHANGED <<messages, sessionRef, scriptProcessorRef, currentInput,
                   currentOutput, pc, attached, clock, sent, nMsgs, texts, streams, cancelled,
                   priorLive, frags, codecVars, stopped>>

(* ------------------------------ onmessage ----------------------------- *)
(* Lines 139, 141: += on the accumulator. *)
AppendFragment_Prepends(acc, frag) == frag \o acc

AppendFragment(acc, frag) == acc \o frag

(* Lines 138-142: output transcription wins over input transcription. *)
OutputAfter(m) ==
    IF m.ot # Absent THEN AppendFragment(currentOutput, m.ot) ELSE currentOutput

InputAfter(m) ==
    IF m.ot = Absent /\ m.it # Absent
    THEN AppendFragment(currentInput, m.it) ELSE currentInput

FragsAfter(m) == IF m.ot # Absent THEN Append(frags, m.ot) ELSE frags

AssistantMessage(text) == [role |-> "assistant", text |-> text]

(* Lines 138-156: the accumulators, and the flush on turnComplete. *)
Transcribe(m) ==
    IF m.tc
    THEN /\ messages' = IF OutputAfter(m) # ""
                        THEN Append(messages, AssistantMessage(OutputAfter(m)))
                        ELSE messages
         /\ currentInput' = ""
         /\ currentOutput' = ""
         /\ frags' = <<>>
    ELSE /\ messages' = messages
         /\ currentInput' = InputAfter(m)
         /\ currentOutput' = OutputAfter(m)
         /\ frags' = FragsAfter(m)

(* Line 162: Math.max(nextStartTimeRef.current, ctx.currentTime). *)
ClampWatermark_NoClamp(w, now) == w

ClampWatermark(w, now) == IF w > now THEN w ELSE now

Unit(start, dur) == [start |-> start, dur |-> dur]

(* A source that is in the set (line 173) and whose start() threw (line   *)
(* 174): it plays nothing and its onended never comes.  Such sources are  *)
(* all alike.                                                             *)
NotStarted == -1
Unstarted == Unit(NotStarted, 0)
Scheduled(start, dur, now) == [start |-> start, dur |-> dur, at |-> now]

(* Lines 158-181: the audio part, then the interruption.  A chunk that     *)
(* fails to decode leaves the clamped watermark and isSpeaking = true; one *)
(* whose start() throws leaves its source in the set as well.              *)
Playback(m) ==
    LET w == ClampWatermark(nextStartTime, clock)
        has == m.audio # NoAudio
        ok == m.audio \in Durations
        wAfter == IF ok THEN w + m.audio ELSE IF has THEN w ELSE nextStartTime
    IN  IF m.intr
        THEN stopAllAudio(wAfter, TRUE)
        ELSE /\ isSpeaking' = (has \/ isSpeaking)
             /\ nextStartTime' = wAfter
             /\ activeSources' =
                    IF ok THEN activeSources \cup {Unit(w, m.audio)}
                    ELSE IF m.audio = BadStart
                    THEN activeSources \cup {Unstarted}
                    ELSE activeSources
             /\ sched' = IF ok THEN Append(sched, Scheduled(w, m.audio, clock))
                         ELSE sched
             /\ flushed' = flushed

OnMessage(t, m) ==
    /\ tstate[t] \in {"open", "closing"}
    /\ nMsgs < MaxMsgs
    /\ nMsgs' = nMsgs + 1
    /\ Transcribe(m)
    /\ Playback(m)
    /\ UNCHANGED <<status, isListening, sessionRef, scriptProcessorRef, pc,
                   tstate, attached, clock, sent, texts, streams, cancelled,
                   priorLive, codecVars, stopped>>

(* --------------------------- audio callbacks -------------------------- *)
(* Lines 169-172: onended of a source that played to its end. *)
OnEnded(u) ==
    /\ u \in activeSources
    /\ u # Unstarted
    /\ clock >= u.start + u.dur
    /\ activeSources' = activeSources \ {u}
    /\ isSpeaking' = IF activeSources' = {} THEN FALSE ELSE isSpeaking
    /\ UNCHANGED <<messages, status, isListening, nextStartTime, sessionRef,
                   scriptProcessorRef, currentInput, currentOutput, pc, tstate,
                   attached, clock, sent, nMsgs, texts, streams, cancelled, priorLive, sched,
                   flushed, frags, codecVars, stopped>>

(* Lines 215-231: onaudioprocess of processor p hands the encoded frame to *)
(* the session of its own attempt.                                         *)
Capture(p) ==
    /\ p \in attached
    /\ FrameCount < MaxFrames
    /\ sent' = [sent EXCEPT ![p] = Append(@, Frame)]
    /\ UNCHANGED <<uiVars, audioVars, sessionRef, scriptProcessorRef,
                   currentInput, currentOutput, pc, tstate, attached, clock,
                   nMsgs, texts, streams, cancelled, priorLive, frags, codecVars, stopped>>

(* The output clock advances. *)
Tick ==
    /\ clock < MaxClock
    /\ clock' = clock + 1
    /\ UNCHANGED <<uiVars, audioVars, sessionRef, scriptProcessorRef,
                   currentInput, currentOutput, pc, tstate, attached, sent,
                   nMsgs, texts, streams, cancelled, priorLive, frags, codecVars, stopped>>

(* ------------------------------ the codec ----------------------------- *)
(* A sample is a whole number of half quantization steps: the sample h is *)
(* the number h / FullScale, so that 1.0 is FullScale and the product of  *)
(* line 220 is h / 2, which has a fraction when h is odd.                 *)
Scale == 32768
FullScale == 2 * Scale

(* Samples at and next to the two ends of [-1, 1], around 0, and next to  *)
(* the largest 16-bit value.                                              *)
SampleInputs ==
    {-FullScale, 1 - FullScale, -3, -1, 0, 1, 3, FullScale - 3,
     FullScale - 1, FullScale}
FrameInputs ==
    UNION {[1..n -> SampleInputs] : n \in 0..MaxSamples}

(* The integer part of num / den, towards zero. *)
Trunc(num, den) ==
    IF num >= 0 THEN num \div den ELSE -((-num) \div den)

(* The store into an Int16Array element: the integer part, modulo 2^16,   *)
(* read as a signed 16-bit number.                                        *)
ToInt16(num, den) ==
    LET u == Trunc(num, den) % (2 ^ 16)
    IN  IF u >= 2 ^ 15 THEN u - 2 ^ 16 ELSE u

(* Lines 218-221: int16[i] = inputData[i] * 32768.  The product of the    *)
(* sample h / FullScale and Scale is h / (FullScale / Scale).             *)
SampleToInt16(h) == ToInt16(h, FullScale \div Scale)

(* Line 223: new Uint8Array(int16.buffer), two bytes a sample, low first. *)
RECURSIVE BytesOf(_)
BytesOf(xs) ==
    IF xs = <<>> THEN <<>>
    ELSE LET u == Head(xs) % (2 ^ 16)
         IN  <<u % 256, u \div 256>> \o BytesOf(Tail(xs))

(* The 65th character of base64 text, "=". *)
Pad == 64

(* btoa, the characters of the text by their index in the alphabet. *)
RECURSIVE Btoa(_)
Btoa(b) ==
    IF b = <<>> THEN <<>>
    ELSE IF Len(b) = 1
    THEN <<b[1] \div 4, (b[1] % 4) * 16, Pad, Pad>>
    ELSE IF Len(b) = 2
    THEN <<b[1] \div 4, (b[1] % 4) * 16 + b[2] \div 16, (b[2] % 16) * 4, Pad>>
    ELSE <<b[1] \div 4, (b[1] % 4) * 16 + b[2] \div 16,
           (b[2] % 16) * 4 + b[3] \div 64, b[3] % 64>>
         \o Btoa(SubSeq(b, 4, Len(b)))

(* atob, on text of whole groups of four characters. *)
RECURSIVE Atob(_)
Atob(c) ==
    IF Len(c) < 4 THEN <<>>
    ELSE LET b1 == c[1] * 4 + c[2] \div 16
             b2 == (c[2] % 16) * 16 + c[3] \div 4
             b3 == (c[3] % 4) * 64 + c[4]
         IN  IF c[3] = Pad THEN <<b1>>
             ELSE IF c[4] = Pad THEN <<b1, b2>>
             ELSE <<b1, b2, b3>> \o Atob(SubSeq(c, 5, Len(c)))

(* Lines 20-27: a character per byte (String.fromCharCode keeps the       *)
(* numbers 0..255), then btoa.                                            *)
encode(bytes) == Btoa(bytes)

(* Lines 10-18: atob, then a byte per character (charCodeAt). *)
decode(base64) == Atob(base64)

(* Line 35: new Int16Array(data.buffer), low byte first. *)
RECURSIVE Int16Of(_)
Int16Of(bytes) ==
    IF Len(bytes) < 2 THEN <<>>
    ELSE LET u == bytes[1] + 256 * bytes[2]
         IN  <<IF u >= 2 ^ 15 THEN u - 2 ^ 16 ELSE u>>
             \o Int16Of(SubSeq(bytes, 3, Len(bytes)))

(* Lines 29-46 with one channel: channelData[i] = dataInt16[i] / 32768.0, *)
(* in half steps.                                                         *)
decodeAudioData(data) ==
    LET d == Int16Of(data)
    IN  [i \in 1..Len(d) |-> d[i] * (FullScale \div Scale)]

(* Lines 216-225: the samples to 16 bits, the bytes to base64 text. *)
EncodeFrame ==
    /\ codecPc = "captured"
    /\ int16' = [i \in 1..Len(inputData) |-> SampleToInt16(inputData[i])]
    /\ pcmBlob' = encode(BytesOf(int16'))
    /\ codecPc' = "encoded"
    /\ UNCHANGED <<appVars, inputData, audioBuffer>>

(* Line 165 on the chunk: decodeAudioData(decode(data)). *)
DecodeChunk ==
    /\ codecPc = "encoded"
    /\ audioBuffer' = decodeAudioData(decode(pcmBlob))
    /\ codecPc' = "decoded"
    /\ UNCHANGED <<appVars, inputData, int16, pcmBlob>>

(* ---------------------------- specifications -------------------------- *)
Lifecycle(S) ==
    \/ \E a \in S : Start(a)
    \/ \E a \in S : MicGranted(a)
    \/ \E a \in S : MicDenied(a)
    \/ \E a \in S : ConnectReject(a)
    \/ \E a \in S, f \in BOOLEAN : Continue(a, f)
    \/ Stop
    \/ \E t \in S : OnOpen(t)
    \/ \E t \in S : OnError(t)
    \/ \E t \in S : OnClose(t)

(* Audio traffic: inbound chunks and interruptions, playback, the output   *)
(* clock.                                                                  *)
AudioTraffic(S) ==
    \/ \E t \in S, m \in AudioMessages : OnMessage(t, m)
    \/ \E u \in activeSources : OnEnded(u)
    \/ Tick

(* Capture: the frames of the attached script processors. *)
CaptureTraffic(S) == \E p \in S : Capture(p)

(* Transcript traffic: fragments and turn-complete. *)
TextTraffic(S) == \E t \in S, m \in TextMessages : OnMessage(t, m)

(* Overlapping attempts, with audio traffic and capture. *)
Next ==
    \/ Lifecycle(Attempts)
    \/ AudioTraffic(Attempts)
    \/ CaptureTraffic(Attempts)

Spec == Init /\ [][Next]_vars

(* The sessions' audio traffic. *)
NextPlayback == Lifecycle(Sessions) \/ AudioTraffic(Sessions)

SpecPlayback == Init /\ [][NextPlayback]_vars

(* The sessions' transcript traffic. *)
NextTurns == Lifecycle(Sessions) \/ TextTraffic(Sessions)

SpecTurns == Init /\ [][NextTurns]_vars

(* The sessions' text input. *)
NextText == Lifecycle(Sessions) \/ \E x \in Texts : SendText(x)

SpecText == Init /\ [][NextText]_vars

(* The conversion of one captured frame, over the frames of up to         *)
(* MaxSamples samples.                                                    *)
InitCodec ==
    /\ InitApp
    /\ inputData \in FrameInputs
    /\ int16 = <<>>
    /\ pcmBlob = <<>>
    /\ audioBuffer = <<>>
    /\ codecPc = "captured"

NextCodec == EncodeFrame \/ DecodeChunk

SpecCodec == InitCodec /\ [][NextCodec]_vars

(* Overlapping attempts, with transcript traffic. *)
NextRestartTurns == Lifecycle(Attempts) \/ TextTraffic(Attempts)

SpecRestartTurns == Init /\ [][NextRestartTurns]_vars

(* ------------------------------- steps -------------------------------- *)
StartStep == \E a \in Attempts : Start(a)
FailedStartStep ==
    \/ \E a \in Attempts : MicDenied(a) \/ ConnectReject(a)
    \/ \E a \in Attempts : Continue(a, TRUE)
OpenStep == \E t \in Attempts : OnOpen(t)
ErrorStep == \E t \in Attempts : OnError(t)
CloseStep == \E t \in Attempts : OnClose(t)
(* An inbound message that carries the interrupted flag is handled. *)
InterruptStep ==
    \E t \in Attempts, m \in AudioMessages : m.intr /\ OnMessage(t, m)
(* Attempt a comes out of one of its awaits (the open callback only marks *)
(* its promise resolved).                                                  *)
Resumes(a) == pc[a] \in Suspended /\ pc'[a] # pc[a] /\ pc'[a] # "resolved"
FrameSentOn(p) ==
    /\ Len(sent'[p]) = Len(sent[p]) + 1
    /\ sent'[p][Len(sent'[p])] = Frame

(* ------------------------------- claims ------------------------------- *)

(* C1: in every reachable state at most one transport is open and at most *)
(* one capture pipeline is attached.                                      *)
C1_AtMostOneSession ==
    /\ Cardinality({t \in Attempts : tstate[t] = "open"}) <= 1
    /\ Cardinality(attached) <= 1

(* C2: an attempt that stop() or a newer start() overtook while it was    *)
(* suspended does nothing when its await completes: it installs no        *)
(* session, attaches no capture pipeline, sends nothing and leaves status *)
(* alone.                                                                 *)
C2_CancelledAttemptInert ==
    [][\A a \in Attempts :
          (a \in cancelled /\ Resumes(a)) =>
              /\ sessionRef' = sessionRef
              /\ attached' = attached
              /\ sent' = sent
              /\ status' = status]_vars

(* C3: after start() was called with status Connected, nothing is sent on *)
(* the new transport while a transport that was live at that call is      *)
(* still live, and the call leaves no playback unit active.               *)
C3_RestartTeardownFirst ==
    [][/\ \A a \in Attempts :
            sent'[a] # sent[a] => \A t \in priorLive[a] : ~Live(t)
       /\ (StartStep /\ status = CONNECTED) => activeSources' = {}]_vars

(* C4: every change of status is one of the listed edges, taken by the    *)
(* listed operation.                                                      *)
C4_StatusEdges ==
    [][status' # status =>
          \/ StartStep /\ status \in {DISCONNECTED, ERROR}
                       /\ status' = CONNECTING
          \/ OpenStep /\ status = CONNECTING /\ status' = CONNECTED
          \/ (ErrorStep \/ FailedStartStep)
                /\ status \in {CONNECTING, CONNECTED} /\ status' = ERROR
          \/ CloseStep /\ status \in {CONNECTING, CONNECTED}
                       /\ status' = DISCONNECTED
          \/ Stop /\ status' = DISCONNECTED]_vars

(* C5: after a transport error callback status is Error, no capture       *)
(* pipeline is attached and the active playback set is empty.             *)
C5_ErrorTearsDown ==
    [][ErrorStep =>
          /\ status' = ERROR
          /\ attached' = {}
          /\ activeSources' = {}]_vars

(* C6: a captured frame is handed to a transport only while status is     *)
(* Connected.                                                             *)
C6_FramesOnlyWhileConnected ==
    [][\A p \in Attempts : FrameSentOn(p) => status = CONNECTED]_vars

(* C7: of the units scheduled since the last stopAllAudio, each starts no *)
(* earlier than the clock time at which it was scheduled and no earlier   *)
(* than the end of the unit scheduled before it.                          *)
C7_Monotone ==
    \A i \in 1..Len(sched) :
        /\ sched[i].start >= sched[i].at
        /\ i > 1 => sched[i].start >= sched[i - 1].start + sched[i - 1].dur

(* A late second chunk: scheduled after the clock passed the watermark. *)
C7_Witness ==
    /\ Len(sched) = 2
    /\ sched[2].at > sched[1].at
    /\ sched[2].start >= sched[1].start + sched[1].dur

(* C8: an interruption leaves the active set empty, and the next chunk    *)
(* scheduled after it starts at the clock time of its scheduling,         *)
(* whatever the watermark was before the interruption.                    *)
C8_InterruptClears ==
    [][/\ InterruptStep => activeSources' = {}
       /\ (flushed /\ sched = <<>> /\ sched' # <<>>) =>
            sched'[1].start = clock]_vars

(* A chunk scheduled after an interruption. *)
C8_Witness ==
    /\ flushed
    /\ sched # <<>>
    /\ Unit(sched[1].start, sched[1].dur) \in activeSources
    /\ sched[1].at > 0

(* C9: a turn-complete event appends exactly one assistant Message whose  *)
(* text is the concatenation, in arrival order, of the outbound fragments *)
(* since the last flush when that is non-empty and none when it is empty, *)
(* and empties both accumulators; an assistant Message is appended by no  *)
(* other step.                                                            *)
TurnCompletes == {m \in TextMessages : m.tc}
AppendsAssistant ==
    /\ Len(messages') > Len(messages)
    /\ messages'[Len(messages')].role = "assistant"

C9_TurnFlush ==
    [][/\ \A m \in TurnCompletes, t \in Attempts :
            OnMessage(t, m) =>
                LET text == Concat(FragsAfter(m))
                IN  /\ messages' = IF text # ""
                                   THEN Append(messages, AssistantMessage(text))
                                   ELSE messages
                    /\ currentOutput' = ""
                    /\ currentInput' = ""
       /\ AppendsAssistant =>
            \E m \in TurnCompletes, t \in Attempts : OnMessage(t, m)]_vars

(* "Hel", "lo", turn-complete: one assistant Message "Hello". *)
C9_Witness ==
    /\ messages = <<AssistantMessage("Hello")>>
    /\ currentOutput = ""
    /\ currentInput = ""
    /\ nMsgs = 2

(* C10: stop() ends with status Disconnected, no live transport, no       *)
(* capture pipeline attached and no active playback unit, and a second    *)
(* stop() right after changes nothing.                                    *)
StopIsNoop == ENABLED (Stop /\ UNCHANGED vars)

C10_StopTerminal ==
    [][Stop =>
          /\ status' = DISCONNECTED
          /\ \A t \in Attempts : tstate'[t] \notin {"connecting", "open"}
          /\ attached' = {}
          /\ activeSources' = {}
          /\ StopIsNoop']_vars

(* C11: sendText(text) with non-empty text while status is Connected      *)
(* appends exactly one user Message carrying that text at the end of the  *)
(* log and hands the text to an open transport, in the same step.         *)
C11_SendTextWhenConnected ==
    [][\A x \in Texts \ {<<>>} :
          (SendText(x) /\ status = CONNECTED) =>
              /\ messages' = Append(messages, UserMessage(Concat(x)))
              /\ \E t \in Attempts :
                    /\ tstate[t] = "open"
                    /\ sent' = [sent EXCEPT ![t] = Append(@, Concat(x))]]_vars

(* C12: sendText(text) while status is Disconnected, Connecting or Error  *)
(* leaves the log as it is and hands nothing to any transport.            *)
C12_SendTextNoopUnlessConnected ==
    [][\A x \in Texts :
          (SendText(x) /\ status # CONNECTED) =>
              messages' = messages /\ sent' = sent]_vars

(* sendText("hi") was called with status Error while the stored session   *)
(* was open (the start failed after the session resolved): nothing sent.  *)
C12_Witness ==
    /\ texts # <<>>
    /\ texts[1] = [text |-> <<"h", "i">>, status |-> ERROR]
    /\ sessionRef # 0
    /\ tstate[sessionRef] = "open"
    /\ pc[sessionRef] = "failed"
    /\ sent[sessionRef] = <<>>

(* C13: when the microphone is refused, the attempt ends with status      *)
(* Error and has made nothing: it created no transport, stored no         *)
(* session, attached no capture pipeline, holds no microphone stream and  *)
(* sent nothing.                                                          *)
C13_MicFailureLeavesNothing ==
    [][\A a \in Attempts :
          (pc[a] = "mic" /\ pc'[a] = "failed") =>
              /\ status' = ERROR
              /\ tstate'[a] = "none" /\ tstate' = tstate
              /\ sessionRef' = sessionRef
              /\ attached' = attached /\ a \notin attached'
              /\ streams' = streams /\ a \notin streams'
              /\ sent' = sent /\ sent'[a] = <<>>]_vars

(* A start() whose microphone was refused, the user having typed while it *)
(* was waiting.                                                           *)
C13_Witness ==
    /\ pc[1] = "failed"
    /\ tstate[1] = "none"
    /\ status = ERROR
    /\ texts # <<>>
    /\ texts[1].status = CONNECTING

(* C14: stop(), and a start() that fails after it acquired the            *)
(* microphone, leave no microphone stream held, and at no time is more    *)
(* than one stream held.                                                  *)
C14_MicReleased ==
    [][/\ (Stop \/ \E a \in Attempts : ConnectReject(a) \/ Continue(a, TRUE))
            => streams' = {}
       /\ Cardinality(streams') <= 1]_vars

(* C15 as stated: the watermark decreases only at a start(), at an        *)
(* interruption or where the session ends (stop(), close callback), and   *)
(* the value it then takes is the output clock's current time.            *)
C15_ResetToClock ==
    [][nextStartTime' < nextStartTime =>
          /\ StartStep \/ InterruptStep \/ Stop \/ CloseStep
          /\ (StartStep \/ InterruptStep) => nextStartTime' = clock']_vars

(* C15 as the code has it: the watermark decreases only at a start(), at  *)
(* an interruption or where the session ends, the value it then takes is  *)
(* 0, and the first chunk scheduled after that starts at the clock time   *)
(* of its scheduling.                                                     *)
C15_ResetToZero ==
    [][/\ nextStartTime' < nextStartTime =>
            /\ StartStep \/ InterruptStep \/ Stop \/ CloseStep
            /\ nextStartTime' = 0
       /\ (sched = <<>> /\ sched' # <<>>) =>
            /\ sched'[1].start = clock
            /\ nextStartTime' = clock + sched'[1].dur]_vars

(* After an interruption, no chunk since: the watermark is 0, behind the  *)
(* clock.                                                                 *)
C15_Witness ==
    /\ flushed
    /\ sched = <<>>
    /\ nextStartTime = 0
    /\ clock > 0
    /\ status = CONNECTED

(* C16: the conversion saturates: the sample +1.0 is stored as 32767, and *)
(* every sample of [-1, 1] is stored as a number of its own sign, or 0.   *)
C16_Saturates ==
    codecPc # "captured" =>
        \A i \in 1..Len(inputData) :
            /\ Len(int16) = Len(inputData)
            /\ inputData[i] = FullScale => int16[i] = 2 ^ 15 - 1
            /\ inputData[i] > 0 => int16[i] >= 0
            /\ inputData[i] < 0 => int16[i] <= 0

(* C17: a frame of N samples, encoded and decoded, gives N samples, each  *)
(* within one quantization step (two half steps) of the original, and the *)
(* bytes come back from the base64 text as they went in.                  *)
C17_RoundTrip ==
    codecPc = "decoded" =>
        /\ decode(encode(BytesOf(int16))) = BytesOf(int16)
        /\ Len(audioBuffer) = Len(inputData)
        /\ \A i \in 1..Len(inputData) :
              /\ audioBuffer[i] - inputData[i] <= 2
              /\ inputData[i] - audioBuffer[i] <= 2

(* C18: isSpeaking is true exactly when the active playback set is not    *)
(* empty.                                                                 *)
C18_SpeakingIffActive == isSpeaking <=> activeSources # {}

(* The messages whose audio chunk fails, and that carry no interruption. *)
FailedChunks ==
    {m \in AudioMessages : m.audio \in {BadAudio, BadStart} /\ ~m.intr}

(* C19: a chunk whose decode or start fails leaves status and the active  *)
(* set as they were, moves the watermark by no duration (at most up to    *)
(* the clock), and a chunk that arrives later, at whatever clock time, is *)
(* started where it would have been without the failed one.               *)
C19_FailedChunkSwallowed ==
    [][\A t \in Attempts, m \in FailedChunks :
          OnMessage(t, m) =>
              /\ status' = status
              /\ activeSources' = activeSources
              /\ nextStartTime' \in {nextStartTime, clock}
              /\ \A now \in clock..(MaxClock + 1) :
                    ClampWatermark(nextStartTime', now)
                        = ClampWatermark(nextStartTime, now)]_vars

(* C20: from a stop() to the next start() the active playback set is      *)
(* empty and no playback unit is scheduled.                               *)
C20_NoPlaybackAfterStop == stopped => activeSources = {} /\ sched = <<>>

(* Transport t is not the current one: stop() ran and no start() since,   *)
(* or a newer start() was called.                                         *)
Superseded(t) == stopped \/ \E b \in Attempts : b > t /\ pc[b] # "idle"

CallbackOf(t) ==
    \/ OnOpen(t) \/ OnError(t) \/ OnClose(t)
    \/ \E m \in AudioMessages : OnMessage(t, m)

(* C21: a callback of a transport that is not the current one leaves      *)
(* status, isListening, the watermark and the active playback set as they *)
(* were.                                                                  *)
C21_StaleCallbacksInert ==
    [][\A t \in Attempts :
          (Superseded(t) /\ CallbackOf(t)) =>
              UNCHANGED <<status, isListening, nextStartTime,
                          activeSources>>]_vars

(* C22: a start() leaves both transcript accumulators empty, so that no   *)
(* fragment of an earlier session reaches a Message of the new one.       *)
C22_TranscriptsPerSession ==
    [][StartStep => currentOutput' = "" /\ currentInput' = ""]_vars

(* C23: isListening is true only while status is Connected. *)
C23_ListeningOnlyConnected == isListening => status = CONNECTED

====
